---------------------------- MODULE Spec2Model ----------------------------
(***************************************************************************)
(* Model of examples/android_gui_cookbook: the response parser of          *)
(* play_agent.py (GameAgent.parse_vlm_response) and the round / episode    *)
(* controllers of play_agent.py (GameAgent) and collect_data.py            *)
(* (DataCollector).                                                        *)
(*                                                                         *)
(* A response text is a sequence of tokens.  A token is one character      *)
(* (a digit, a letter, a blank, a colon, ")") or one literal of the        *)
(* regular expressions of parse_vlm_response, kept whole.  The non-ASCII   *)
(* literals are written in pinyin:                                         *)
(*   "xuanze" = U+9009 U+62E9, "de" = U+7684, "suoyin" = U+7D22 U+5F15,    *)
(*   "di" = U+7B2C, "ge" = U+4E2A, "xuanxiang" = U+9009 U+9879,            *)
(*   "fwcolon" = U+FF1A (full-width colon).                                *)
(* "x" is any character that occurs in no pattern.                         *)
(***************************************************************************)
EXTENDS Integers, Sequences, FiniteSets, TLC

VARIABLES
    \* -- the parser run
    response,         \* the text handed to parse_vlm_response
    nAppended,        \* number of pieces the text was built from
    parsed,           \* parse_vlm_response has returned
    result,           \* the value parse_vlm_response returned
    \* -- one call of the model client (VLMClient.query) and what its caller makes of it
    caller,           \* who asks: "make_decision" or "recognize_score" ("none")
    model_type,       \* VLMClient.model_type: "ollama" or "vllm"
    exchange,         \* what happens to the call: the image encoding, the HTTP exchange
    requests_posted,  \* number of requests.post calls made
    clientPc,         \* where the call stands
    reply,            \* the text query returned
    query_raised,     \* an exception left query
    answer,           \* what the caller returned
    \* -- the episode run (GameAgent.run_game / DataCollector.collect_one_episode)
    variant,          \* which controller runs: "agent" or "collector"
    pc,               \* where the run stands
    completed_rounds, \* completed_rounds
    total_attempts,   \* total_attempts (agent) / attempt_count (collector)
    rounds,           \* episode_metadata["rounds"] (collector)
    selected_index,   \* selected_index of the round in progress
    retry,            \* retry, the variable of the tap loop
    click_success,    \* click_success
    draws,            \* random.choice calls of the episode so far, up to MaxFreeChoices
    round_ok,         \* play_one_round's return: True (agent) / not None (collector)
    round_metadata,   \* play_one_round's return (collector): the round's record
    \* -- what the ports saw during the round in progress
    tapLog,           \* the taps issued in this round, in order, with their outcome
    decisionQueries,  \* model queries made for the decision in this round
    negChecks,        \* verifications of this round that came out negative
    posChecks,        \* verifications of this round that came out positive
    check_response,   \* what the verification just made was answered (agent)
    failReason,       \* why the round failed ("none" while it has not)
    raised,           \* the call whose exception left the episode run ("none")
    \* -- the end of the episode
    final_screenshot, \* the final-state capture: "none", "saved" or "failed"
    final_score,      \* final_score (agent)
    record,           \* the episode record as written out
    saved,            \* number of times the episode record was written out
    now,              \* the clock, in whole seconds since the episode run started
    final_file,       \* the image file capture_final_score saved (agent)
    \* -- what has happened in the episode so far
    allFirstTry,      \* every capture, tap, decision and verification so far succeeded
    alternates,       \* so far every odd attempt failed and every even one completed
    \* -- the session (collect_data.main / play_agent.main)
    driver,           \* which main runs: "collect_data" or "play_agent" ("none")
    parallel,         \* args.parallel
    devices,          \* args.devices
    episodes,         \* args.episodes
    sessionPc,        \* where main stands
    next_device,      \* position in args.devices of the sequential loop
    worker,           \* for each position of args.devices, where its work stands
    returned,         \* for each position, what collect_from_device returned
    dirs,             \* the output directories that exist
    summary_files,    \* the content of collection_summary.json in each directory
    files,            \* the files on disk: <<directory, file name>>
    writes,           \* every file write so far: <<directory, file name, device>>
    episode_index,    \* for each position, the episodes its loop has finished
    collected,        \* for each position, self.episodes of its DataCollector
    resets,           \* for each position, refresh_browser calls since its last episode ended
    found_files,      \* for each position, what its directory held at construction
    used_ids,         \* for each position, the episode ids it collected under, in order
    last_begun,       \* for each device, the id of the episode begun on it last
    in_order,         \* so far every episode begun on a device had a larger id than the one before
    all_summaries,    \* all_summaries (collect_data) / all_results (play_agent)
    total_summary,    \* total_summary as written to total_summary.json
    start_episode_id  \* for each position, the start_episode_id of its DataCollector

parserVars == <<response, nAppended, parsed, result>>
clientVars == <<caller, model_type, exchange, requests_posted, clientPc, reply,
               query_raised, answer>>
episodeVars == <<completed_rounds, total_attempts, rounds, draws>>
roundVars == <<selected_index, retry, click_success>>
portVars == <<tapLog, decisionQueries, negChecks, posChecks>>
returnVars == <<round_ok, round_metadata, failReason, raised>>
finalVars == <<final_screenshot, final_score, record, saved, now, final_file>>
historyVars == <<allFirstTry, alternates>>
runVars == <<variant, pc, episodeVars, roundVars, portVars, returnVars, finalVars,
            historyVars, check_response>>
argVars == <<driver, parallel, devices, episodes>>
diskVars == <<dirs, summary_files, files, writes>>
loopVars == <<episode_index, collected, resets>>
traceVars == <<found_files, used_ids, last_begun, in_order>>
outVars == <<all_summaries, total_summary>>
sessionVars == <<argVars, sessionPc, next_device, worker, returned, start_episode_id,
                diskVars, loopVars, traceVars, outVars>>
vars == <<parserVars, clientVars, runVars, sessionVars>>

(***************************************************************************)
(* Bounds of the model.                                                    *)
(***************************************************************************)
\* A text handed to the parser is built from at most MaxPieces pieces.
MaxPieces == 3
\* The first MaxFreeChoices random choices of an episode are free (any of
\* 0, 1, 2); the choices after them are 0.
MaxFreeChoices == 2

\* A session names at most MaxDevices devices.
MaxDevices == 2
\* longest reply of the model to the score prompt, in tokens
MaxReplyLen == 3

----------------------------------------------------------------------------
(***************************************************************************)
(* Texts.                                                                  *)
(***************************************************************************)
Digits == {"0", "1", "2", "3"}

Tokens ==
    {"<action>", "select(", "SELECT(", ")", "</action>",
     "xuanze", "de", "suoyin", ":", "fwcolon", " ", "di", "ge",
     "answer", "xuanxiang", "a", "B", "c", "x"} \cup Digits

\* Whole phrases a text may be built from, beside single tokens.
Phrases ==
    {<<"<action>", "select(", "1", ")", "</action>">>,
     <<"<action>", "select(", "3", ")", "</action>">>,
     <<"<action>", "select(">>,
     <<")", "</action>">>}

Pieces == {<<t>> : t \in Tokens} \cup Phrases

\* Python's None (Optional[int]); the decisions are 0, 1, 2.
None == -1

----------------------------------------------------------------------------
(***************************************************************************)
(* The pieces of Python the parser uses.                                   *)
(***************************************************************************)

\* str.lower(), and the case folding of re.IGNORECASE, on a token.
Lower(tok) ==
    CASE tok = "SELECT(" -> "select("
      [] tok = "B" -> "b"
      [] tok = "YES" -> "yes"
      [] tok = "Yes" -> "yes"
      [] OTHER -> tok

\* The first character of a token.
FirstChar(tok) ==
    CASE tok = "answer" -> "a"
      [] tok = "<action>" -> "<"
      [] tok = "</action>" -> "<"
      [] tok = "select(" -> "s"
      [] tok = "SELECT(" -> "S"
      [] OTHER -> tok

\* ord() of a letter.
Ord(ch) ==
    CASE ch = "a" -> 97
      [] ch = "b" -> 98
      [] ch = "c" -> 99
      [] ch = "B" -> 66
      [] OTHER -> 120

DigitVal(d) ==
    CASE d = "0" -> 0
      [] d = "1" -> 1
      [] d = "2" -> 2
      [] d = "3" -> 3

\* (mutant of IntOf: only the first digit counts)
IntOfMutLeading(s) == IF s = <<>> THEN 0 ELSE DigitVal(s[1])

RECURSIVE IntOf(_)
\* int() of a run of decimal digits.
IntOf(s) ==
    IF s = <<>> THEN 0
    ELSE 10 * IntOf(SubSeq(s, 1, Len(s) - 1)) + DigitVal(s[Len(s)])

----------------------------------------------------------------------------
(***************************************************************************)
(* Regular expressions.  A pattern is a sequence of elements:              *)
(*   lit    a literal, matched case-insensitively                          *)
(*   opt    an optional literal (x?)                                       *)
(*   colon  [: or full-width colon]                                        *)
(*   ws     \s*                                                            *)
(*   digits (\d+), the capture group                                       *)
(*   letter ([abc]), the capture group, case-insensitive                   *)
(*   scoresep [shi wei : full-width colon], of recognize_score             *)
(* No two neighbouring elements of the patterns below can match the same   *)
(* character, so greedy matching never has to backtrack.                   *)
(***************************************************************************)
Lit(s) == [t |-> "lit", s |-> s]
Opt(s) == [t |-> "opt", s |-> s]
Colon == [t |-> "colon", s |-> ""]
Ws == [t |-> "ws", s |-> ""]
DigitRun == [t |-> "digits", s |-> ""]
Letter == [t |-> "letter", s |-> ""]
ScoreSep == [t |-> "scoresep", s |-> ""]

\* re.findall found nothing: the empty list.
NoMatch == <<>>

RECURSIVE SkipWhile(_, _, _)
\* The first position from i on whose token is not in set S.
SkipWhile(text, i, S) ==
    IF i <= Len(text) /\ text[i] \in S THEN SkipWhile(text, i + 1, S) ELSE i

RECURSIVE MatchFrom(_, _, _, _, _)
\* Match elements k.. of pat at position i of text; the captured group, or
\* NoMatch.
MatchFrom(pat, k, text, i, cap) ==
    IF k > Len(pat) THEN cap
    ELSE LET e == pat[k]
             here == i <= Len(text)
         IN CASE e.t = "lit" ->
                   IF here /\ Lower(text[i]) = e.s
                   THEN MatchFrom(pat, k + 1, text, i + 1, cap) ELSE NoMatch
              [] e.t = "opt" ->
                   IF here /\ Lower(text[i]) = e.s
                   THEN MatchFrom(pat, k + 1, text, i + 1, cap)
                   ELSE MatchFrom(pat, k + 1, text, i, cap)
              [] e.t = "colon" ->
                   IF here /\ text[i] \in {":", "fwcolon"}
                   THEN MatchFrom(pat, k + 1, text, i + 1, cap) ELSE NoMatch
              [] e.t = "ws" ->
                   MatchFrom(pat, k + 1, text, SkipWhile(text, i, {" "}), cap)
              [] e.t = "digits" ->
                   LET j == SkipWhile(text, i, Digits)
                   IN IF j = i THEN NoMatch
                      ELSE MatchFrom(pat, k + 1, text, j, SubSeq(text, i, j - 1))
              [] e.t = "scoresep" ->
                   IF here /\ text[i] \in {"shi", "wei", ":", "fwcolon"}
                   THEN MatchFrom(pat, k + 1, text, i + 1, cap) ELSE NoMatch
              [] e.t = "letter" ->
                   IF here /\ Lower(FirstChar(text[i])) \in {"a", "b", "c"}
                   THEN MatchFrom(pat, k + 1, text, i + 1, <<FirstChar(text[i])>>)
                   ELSE NoMatch

\* The start positions of the matches of pat in text.
MatchStarts(pat, text) ==
    {i \in 1..Len(text) : MatchFrom(pat, 1, text, i, NoMatch) # NoMatch}

SetMin(S) == CHOOSE m \in S : \A n \in S : m <= n
SetMax(S) == CHOOSE m \in S : \A n \in S : m >= n

\* (mutant of FirstFound: the last match, matches[-1])
FirstFoundMutLast(pat, text) ==
    IF MatchStarts(pat, text) = {} THEN NoMatch
    ELSE MatchFrom(pat, 1, text, SetMax(MatchStarts(pat, text)), NoMatch)

\* re.findall(pattern, response, re.IGNORECASE) followed by matches[0]: the
\* group captured by the leftmost match, or NoMatch when the list is empty.
FirstFound(pat, text) ==
    IF MatchStarts(pat, text) = {} THEN NoMatch
    ELSE MatchFrom(pat, 1, text, SetMin(MatchStarts(pat, text)), NoMatch)

----------------------------------------------------------------------------
(***************************************************************************)
(* GameAgent.parse_vlm_response                                            *)
(***************************************************************************)

\* Strategy 1: <action>select\((\d+)\)</action>
action_pattern ==
    <<Lit("<action>"), Lit("select("), DigitRun, Lit(")"), Lit("</action>")>>

\* Strategy 2, in the order of the list.
index_patterns ==
    << <<Lit("xuanze"), Opt("de"), Lit("suoyin"), Colon, Ws, DigitRun>>,
       <<Lit("suoyin"), Colon, Ws, DigitRun>>,
       <<Lit("select("), DigitRun, Lit(")")>>,
       <<Lit("xuanze"), Ws, DigitRun>>,
       <<Lit("di"), Ws, DigitRun, Ws, Lit("ge")>>,
       <<Lit("answer"), Colon, Ws, DigitRun>>,
       <<Lit("xuanxiang"), Ws, Letter>> >>

\* (mutant of ValidIndex: the upper bound is not checked)
ValidIndexMutNoUpper(index) == 0 <= index

\* if 0 <= index <= 2
ValidIndex(index) == 0 <= index /\ index <= 2

\* (mutant of MatchIndex: the letter is not lower-cased before ord())
MatchIndexMutNoLower(match_str) ==
    IF Lower(match_str[1]) \in {"a", "b", "c"}
    THEN Ord(match_str[1]) - Ord("a")
    ELSE IntOf(match_str)

\* The index of a strategy-2 match: a letter's distance from "a", or int().
MatchIndex(match_str) ==
    IF Lower(match_str[1]) \in {"a", "b", "c"}
    THEN Ord(Lower(match_str[1])) - Ord("a")
    ELSE IntOf(match_str)

RECURSIVE Strategy2(_, _)
\* for pattern in index_patterns: ... ; return None
Strategy2(text, k) ==
    IF k > Len(index_patterns) THEN None
    ELSE LET matches == FirstFound(index_patterns[k], text)
         IN IF matches # NoMatch /\ ValidIndex(MatchIndex(matches))
            THEN MatchIndex(matches)
            ELSE Strategy2(text, k + 1)

parse_vlm_response(text) ==
    LET matches == FirstFound(action_pattern, text)
    IN IF matches # NoMatch /\ ValidIndex(IntOf(matches))
       THEN IntOf(matches)
       ELSE Strategy2(text, 1)

----------------------------------------------------------------------------
(***************************************************************************)
(* The other parsers of GameAgent.                                         *)
(* More pinyin: "shi" = U+662F, "fou" = U+5426, "chenggong" = U+6210       *)
(* U+529F, "gaibian" = U+6539 U+53D8, "fenshu" = U+5206 U+6570,            *)
(* "shuzi" = U+6570 U+5B57, "wei" = U+4E3A.                                *)
(***************************************************************************)

\* (mutant of check_click_success: "yes" is looked for in the response as it is)
check_click_successMutCaseSensitive(text) ==
    \E i \in 1..Len(text) : text[i] \in {"shi", "chenggong", "gaibian", "yes"}

\* "shi" in response or "yes" in response.lower() or "chenggong" in response
\* or "gaibian" in response
check_click_success(text) ==
    \E i \in 1..Len(text) :
        \/ text[i] \in {"shi", "chenggong", "gaibian"}
        \/ Lower(text[i]) = "yes"

\* The patterns of recognize_score, in the order of the list.
score_patterns ==
    << <<DigitRun>>,
       <<Lit("fenshu"), ScoreSep, Ws, DigitRun>>,
       <<Lit("shuzi"), ScoreSep, Ws, DigitRun>> >>

RECURSIVE ScoreFrom(_, _)
\* for pattern in patterns: ... return int(matches[0]); return None
ScoreFrom(text, k) ==
    IF k > Len(score_patterns) THEN None
    ELSE IF FirstFound(score_patterns[k], text) # NoMatch
         THEN IntOf(FirstFound(score_patterns[k], text))
         ELSE ScoreFrom(text, k + 1)

recognize_score(text) == ScoreFrom(text, 1)

----------------------------------------------------------------------------
(***************************************************************************)
(* The controllers: constants, layout tables, what the ports may answer.   *)
(***************************************************************************)

\* while completed_rounds < 10 (both controllers)
TargetRounds == 10
\* GameAgent.run_game: max_total_attempts = 20
max_total_attempts == 20
\* DataCollector.collect_one_episode: max_attempts = 20
max_attempts == 20
\* max_retry = 3 (both play_one_round)
max_retry == 3

agent_card_positions == << <<135, 905>>, <<360, 905>>, <<585, 905>> >>
agent_next_button_position == <<360, 1070>>
collector_card_positions == << <<135, 860>>, <<360, 860>>, <<585, 860>> >>
collector_next_button_position == <<360, 1040>>

\* (mutant of PositionOf: the first entry of the table whatever the index)
PositionOfMutFirst(positions, index) == positions[1]

\* positions[selected_index]
PositionOf(positions, index) == positions[index + 1]

\* random.choice([0, 1, 2])
random_choice == {0, 1, 2}

\* (mutant of check_card_color_changed: the tap is never seen to have worked)
check_card_color_changedMutFalse == FALSE

\* check_card_color_changed: return True
check_card_color_changed == TRUE

\* What the model may answer to the decision prompt ("" on a failed request).
DecisionResponses ==
    {<<>>,
     <<"x">>,
     <<"<action>", "select(", "0", ")", "</action>">>,
     <<"<action>", "select(", "1", ")", "</action>">>,
     <<"suoyin", ":", " ", "2">>,
     <<"<action>", "select(", "3", ")", "</action>">>,
     <<"xuanxiang", "B">>}

\* What the model may answer to the verification prompt.
CheckResponses ==
    {<<>>, <<"shi">>, <<"fou">>, <<"YES">>, <<"x", "chenggong">>, <<"gaibian">>,
     <<"Yes", "x">>, <<"x", "fou">>}

\* No verification has just been answered.
NoCheck == [asked |-> FALSE, raised |-> FALSE, text |-> <<>>]

\* response = self.vlm_client.query(check_screenshot, prompt): the text the
\* client returned ("" on a failed request), or the query raised.
CheckOutcomes ==
    {[asked |-> TRUE, raised |-> TRUE, text |-> <<>>]} \cup
    {[asked |-> TRUE, raised |-> FALSE, text |-> t] : t \in CheckResponses}

\* check_click_success as a whole: the keyword test inside try, and
\* except Exception: return False
CheckClick(outcome) == IF outcome.raised THEN FALSE ELSE check_click_success(outcome.text)

\* What the model may answer to the score prompt.
ScoreResponses ==
    {<<>>, <<"1", "0">>, <<"fenshu", "shi", "3">>, <<"x">>}

\* No round record: play_one_round returned None (collector).
NoRecord == [round |-> 0]

\* No episode record has been written.
NoEpisodeRecord == [written |-> FALSE]

\* No image file of the final state has been saved.
NoFile == [kind |-> "none", id |-> 0]

\* f"final_score_{timestamp}.png", the timestamp having a resolution of a second
\* (strftime("%Y%m%d_%H%M%S")).
FinalScoreFile(timestamp) == [kind |-> "final_score", id |-> timestamp]

\* Whole seconds by which the clock reading of save_results can differ from
\* that of capture_final_score (the score query runs between the two).
ElapsedSeconds == {0, 1}

\* for retry in range(max_retry): another iteration follows this one.
RangeHasNextMutShort(r) == r + 1 < max_retry - 1

RangeHasNextMutLong(r) == r + 1 <= max_retry

RangeHasNext(r) == r + 1 < max_retry

\* One tap issued through ADBController.tap, with what it returned.
TapEntry(kind, pos, ok) == [kind |-> kind, pos |-> pos, ok |-> ok]

\* A port call came back: ok is whether it succeeded (a tap or capture that
\* worked, a decision in the domain, a positive verification).
PortAnswers(ok) == allFirstTry' = (allFirstTry /\ ok)

\* play_one_round returns.
RoundReturns(ok, meta, reason) ==
    /\ pc' = "round_done"
    /\ round_ok' = ok
    /\ round_metadata' = meta
    /\ failReason' = reason
    /\ UNCHANGED raised

\* An exception leaves play_one_round and, uncaught, the episode run.
Raises(call, reason) ==
    /\ pc' = "raised"
    /\ raised' = call
    /\ failReason' = reason
    /\ UNCHANGED <<round_ok, round_metadata>>

\* play_one_round has returned and its result is used: its locals are gone,
\* and what the ports saw starts afresh for the next round.
ForgetRound ==
    /\ selected_index' = None
    /\ retry' = 0
    /\ click_success' = FALSE
    /\ tapLog' = <<>>
    /\ decisionQueries' = 0
    /\ negChecks' = 0
    /\ posChecks' = 0
    /\ round_ok' = FALSE
    /\ round_metadata' = NoRecord
    /\ failReason' = "none"
    /\ UNCHANGED raised

----------------------------------------------------------------------------
(***************************************************************************)
(* GameAgent.run_game and GameAgent.play_one_round                         *)
(***************************************************************************)

\* (mutant of AgentLoopEnter: the loop has no attempt ceiling)
AgentLoopEnterMutNoCeiling ==
    /\ variant = "agent" /\ pc = "loop"
    /\ completed_rounds < TargetRounds
    /\ total_attempts' =
          IF total_attempts < max_total_attempts THEN total_attempts + 1 ELSE total_attempts
    /\ pc' = "capture"
    /\ UNCHANGED <<parserVars, clientVars, sessionVars, variant, check_response, historyVars,
                   completed_rounds, rounds, draws, roundVars, portVars,
                   returnVars, finalVars>>

\* while completed_rounds < 10 and total_attempts < max_total_attempts:
\*     total_attempts += 1; success = self.play_one_round(completed_rounds + 1)
AgentLoopEnter ==
    /\ variant = "agent" /\ pc = "loop"
    /\ completed_rounds < TargetRounds /\ total_attempts < max_total_attempts
    /\ total_attempts' = total_attempts + 1
    /\ pc' = "capture"
    /\ UNCHANGED <<parserVars, clientVars, sessionVars, variant, check_response, historyVars,
                   completed_rounds, rounds, draws, roundVars, portVars,
                   returnVars, finalVars>>

\* The while loop ends.
AgentLoopExit ==
    /\ variant = "agent" /\ pc = "loop"
    /\ ~(completed_rounds < TargetRounds /\ total_attempts < max_total_attempts)
    /\ pc' = "final_capture"
    /\ UNCHANGED <<parserVars, clientVars, sessionVars, variant, check_response, historyVars, episodeVars,
                   roundVars, portVars, returnVars, finalVars>>

\* screenshot = self.capture_screenshot(round_num); a failed capture raises
\* RuntimeError, which nothing catches.
AgentCaptureScreenshot ==
    /\ variant = "agent" /\ pc = "capture"
    /\ \E ok \in BOOLEAN :
          /\ PortAnswers(ok)
          /\ IF ok
             THEN pc' = "decide" /\ UNCHANGED returnVars
             ELSE Raises("round_capture", "capture")
    /\ UNCHANGED <<parserVars, clientVars, sessionVars, variant, check_response, alternates, episodeVars,
                   roundVars, portVars, finalVars>>

\* (mutant of AgentMakeDecision: a failed decision is asked for once more)
AgentMakeDecisionMutRetry ==
    /\ variant = "agent" /\ pc = "decide"
    /\ \E text \in DecisionResponses :
          /\ selected_index' = parse_vlm_response(text)
          /\ decisionQueries' = decisionQueries + 1
          /\ PortAnswers(parse_vlm_response(text) # None)
          /\ IF parse_vlm_response(text) = None
             THEN IF decisionQueries = 0
                  THEN pc' = "decide" /\ UNCHANGED returnVars
                  ELSE RoundReturns(FALSE, NoRecord, "decision")
             ELSE pc' = "tap_card" /\ UNCHANGED returnVars
    /\ retry' = 0
    /\ click_success' = FALSE
    /\ UNCHANGED <<parserVars, clientVars, sessionVars, variant, check_response, alternates, episodeVars,
                   tapLog, negChecks, posChecks, finalVars>>

\* selected_index = self.make_decision(screenshot)
\* if selected_index is None: return False
\* max_retry = 3; click_success = False
AgentMakeDecision ==
    /\ variant = "agent" /\ pc = "decide"
    /\ \E text \in DecisionResponses :
          /\ selected_index' = parse_vlm_response(text)
          /\ decisionQueries' = decisionQueries + 1
          /\ PortAnswers(parse_vlm_response(text) # None)
          /\ IF parse_vlm_response(text) = None
             THEN RoundReturns(FALSE, NoRecord, "decision")
             ELSE pc' = "tap_card" /\ UNCHANGED returnVars
    /\ retry' = 0
    /\ click_success' = FALSE
    /\ UNCHANGED <<parserVars, clientVars, sessionVars, variant, check_response, alternates, episodeVars,
                   tapLog, negChecks, posChecks, finalVars>>

\* success = self.controller.tap(x, y, delay=1.5)
\* if not success: return False
AgentTapCard ==
    /\ variant = "agent" /\ pc = "tap_card"
    /\ check_response' = NoCheck
    /\ \E ok \in BOOLEAN :
          /\ PortAnswers(ok)
          /\ tapLog' = Append(tapLog,
                 TapEntry("card", PositionOf(agent_card_positions, selected_index), ok))
          /\ IF ok
             THEN pc' = "check_capture" /\ UNCHANGED returnVars
             ELSE RoundReturns(FALSE, NoRecord, "card_tap")
    /\ UNCHANGED <<parserVars, clientVars, sessionVars, variant, alternates, episodeVars,
                   roundVars, decisionQueries, negChecks, posChecks, finalVars>>

\* check_screenshot = self.controller.capture_screenshot(); a failed capture
\* raises RuntimeError, which nothing catches.
AgentCheckCapture ==
    /\ variant = "agent" /\ pc = "check_capture"
    /\ \E ok \in BOOLEAN :
          /\ PortAnswers(ok)
          /\ IF ok
             THEN pc' = "check" /\ UNCHANGED returnVars
             ELSE Raises("check_capture", "check_capture")
    /\ UNCHANGED <<parserVars, clientVars, sessionVars, variant, check_response, alternates, episodeVars,
                   roundVars, portVars, finalVars>>

\* click_success = self.check_click_success(check_screenshot)
\* if click_success: break   (else the next iteration of the for loop, if any)
AgentCheckClick ==
    /\ variant = "agent" /\ pc = "check"
    /\ \E outcome \in CheckOutcomes :
          /\ check_response' = outcome
          /\ click_success' = CheckClick(outcome)
          /\ PortAnswers(CheckClick(outcome))
          /\ IF CheckClick(outcome)
             THEN /\ posChecks' = posChecks + 1
                  /\ pc' = "after_loop"
                  /\ UNCHANGED <<negChecks, retry>>
             ELSE /\ negChecks' = negChecks + 1
                  /\ UNCHANGED posChecks
                  /\ IF RangeHasNext(retry)
                     THEN retry' = retry + 1 /\ pc' = "tap_card"
                     ELSE retry' = retry /\ pc' = "after_loop"
    /\ UNCHANGED <<parserVars, clientVars, sessionVars, variant, alternates, episodeVars,
                   selected_index, tapLog, decisionQueries, returnVars,
                   finalVars>>

\* (mutant of AgentAfterLoop: the round goes on whatever click_success is)
AgentAfterLoopMutNoCheck ==
    /\ variant = "agent" /\ pc = "after_loop"
    /\ check_response' = NoCheck
    /\ pc' = "tap_next"
    /\ UNCHANGED <<parserVars, clientVars, sessionVars, variant, historyVars, episodeVars,
                   roundVars, portVars, returnVars, finalVars>>

\* if not click_success: return False
AgentAfterLoop ==
    /\ variant = "agent" /\ pc = "after_loop"
    /\ check_response' = NoCheck
    /\ IF ~click_success
       THEN RoundReturns(FALSE, NoRecord, "verify")
       ELSE pc' = "tap_next" /\ UNCHANGED returnVars
    /\ UNCHANGED <<parserVars, clientVars, sessionVars, variant, historyVars, episodeVars,
                   roundVars, portVars, finalVars>>

\* success = self.controller.tap(next_x, next_y, delay=1.5)
\* if not success: return False
\* return True
AgentTapNext ==
    /\ variant = "agent" /\ pc = "tap_next"
    /\ \E ok \in BOOLEAN :
          /\ PortAnswers(ok)
          /\ tapLog' = Append(tapLog, TapEntry("next", agent_next_button_position, ok))
          /\ IF ok
             THEN RoundReturns(TRUE, NoRecord, "none")
             ELSE RoundReturns(FALSE, NoRecord, "next_tap")
    /\ UNCHANGED <<parserVars, clientVars, sessionVars, variant, check_response, alternates, episodeVars,
                   roundVars, decisionQueries, negChecks, posChecks, finalVars>>

\* if success: completed_rounds += 1   else: continue
AgentAfterRound ==
    /\ variant = "agent" /\ pc = "round_done"
    /\ completed_rounds' = IF round_ok THEN completed_rounds + 1 ELSE completed_rounds
    /\ pc' = "loop"
    /\ ForgetRound
    /\ alternates' = (alternates /\ (round_ok <=> total_attempts % 2 = 0))
    /\ UNCHANGED <<parserVars, clientVars, sessionVars, variant, check_response, allFirstTry,
                   total_attempts, rounds, draws, finalVars>>

\* final_screenshot = self.capture_final_score(); a failed capture raises.
AgentCaptureFinalScore ==
    /\ variant = "agent" /\ pc = "final_capture"
    /\ \E ok \in BOOLEAN :
          /\ PortAnswers(ok)
          /\ IF ok
             THEN /\ pc' = "recognize"
                  /\ final_screenshot' = "saved"
                  /\ final_file' = FinalScoreFile(now)
                  /\ UNCHANGED returnVars
             ELSE /\ Raises("final_capture", failReason)
                  /\ final_screenshot' = "failed"
                  /\ UNCHANGED final_file
    /\ UNCHANGED <<parserVars, clientVars, sessionVars, variant, check_response, alternates, episodeVars,
                   roundVars, portVars, final_score, record, saved, now>>

\* final_score = self.recognize_score(final_screenshot)
AgentRecognizeScore ==
    /\ variant = "agent" /\ pc = "recognize"
    /\ \E text \in ScoreResponses : final_score' = recognize_score(text)
    /\ \E elapsed \in ElapsedSeconds : now' = now + elapsed
    /\ pc' = "save"
    /\ UNCHANGED <<parserVars, clientVars, sessionVars, variant, check_response, historyVars, episodeVars,
                   roundVars, portVars, returnVars, final_screenshot, record,
                   saved, final_file>>

\* self.save_results(final_screenshot, final_score): the clock is read again,
\* timestamp = datetime.now().strftime(...), and the record names
\* f"final_score_{timestamp}.png" as its final screenshot.
AgentSaveResults ==
    /\ variant = "agent" /\ pc = "save"
    /\ record' = [written |-> TRUE,
                  timestamp |-> now,
                  total_rounds |-> 10,
                  final_score |-> final_score,
                  final_screenshot |-> FinalScoreFile(now)]
    /\ saved' = saved + 1
    /\ pc' = "done"
    /\ UNCHANGED <<parserVars, clientVars, sessionVars, variant, check_response, historyVars, episodeVars,
                   roundVars, portVars, returnVars, final_screenshot,
                   final_score, now, final_file>>

----------------------------------------------------------------------------
(***************************************************************************)
(* DataCollector.collect_one_episode and DataCollector.play_one_round      *)
(***************************************************************************)

\* while completed_rounds < 10 and attempt_count < max_attempts:
\*     attempt_count += 1; round_num = completed_rounds + 1
\*     round_metadata = self.play_one_round(episode_id, round_num)
CollectorLoopEnter ==
    /\ variant = "collector" /\ pc = "loop"
    /\ completed_rounds < TargetRounds /\ total_attempts < max_attempts
    /\ total_attempts' = total_attempts + 1
    /\ pc' = "capture"
    /\ UNCHANGED <<parserVars, clientVars, sessionVars, variant, check_response, historyVars,
                   completed_rounds, rounds, draws, roundVars, portVars,
                   returnVars, finalVars>>

\* The while loop ends.
CollectorLoopExit ==
    /\ variant = "collector" /\ pc = "loop"
    /\ ~(completed_rounds < TargetRounds /\ total_attempts < max_attempts)
    /\ pc' = "final_capture"
    /\ UNCHANGED <<parserVars, clientVars, sessionVars, variant, check_response, historyVars, episodeVars,
                   roundVars, portVars, returnVars, finalVars>>

\* question_screenshot = self.capture_and_save(episode_id, round_num, "question")
\* if question_screenshot is None: return None
CollectorCaptureQuestion ==
    /\ variant = "collector" /\ pc = "capture"
    /\ \E ok \in BOOLEAN :
          /\ PortAnswers(ok)
          /\ IF ok
             THEN pc' = "decide" /\ UNCHANGED returnVars
             ELSE RoundReturns(FALSE, NoRecord, "capture")
    /\ UNCHANGED <<parserVars, clientVars, sessionVars, variant, check_response, alternates, episodeVars,
                   roundVars, portVars, finalVars>>

\* selected_index = self.random_choice(); max_retry = 3; click_success = False
CollectorRandomChoice ==
    /\ variant = "collector" /\ pc = "decide"
    /\ \E index \in (IF draws < MaxFreeChoices THEN random_choice ELSE {0}) :
          selected_index' = index
    /\ draws' = IF draws < MaxFreeChoices THEN draws + 1 ELSE draws
    /\ retry' = 0
    /\ click_success' = FALSE
    /\ pc' = "tap_card"
    /\ UNCHANGED <<parserVars, clientVars, sessionVars, variant, check_response, historyVars,
                   completed_rounds, total_attempts, rounds, portVars,
                   returnVars, finalVars>>

\* One iteration of: for retry in range(max_retry):
\*     success = self.controller.tap(x, y, delay=1.0)
\*     if not success: (continue if retry < max_retry - 1 else return None)
\*     if self.check_card_color_changed(): click_success = True; break
CollectorTapCard ==
    /\ variant = "collector" /\ pc = "tap_card"
    /\ \E ok \in BOOLEAN :
          /\ PortAnswers(ok)
          /\ tapLog' = Append(tapLog,
                 TapEntry("card", PositionOf(collector_card_positions, selected_index), ok))
          /\ IF ~ok
             THEN IF retry < max_retry - 1
                  THEN /\ retry' = retry + 1
                       /\ pc' = "tap_card"
                       /\ UNCHANGED <<click_success, returnVars>>
                  ELSE /\ RoundReturns(FALSE, NoRecord, "card_tap")
                       /\ UNCHANGED <<retry, click_success>>
             ELSE IF check_card_color_changed
                  THEN /\ click_success' = TRUE
                       /\ pc' = "after_loop"
                       /\ UNCHANGED <<retry, returnVars>>
                  ELSE /\ IF RangeHasNext(retry)
                          THEN retry' = retry + 1 /\ pc' = "tap_card"
                          ELSE retry' = retry /\ pc' = "after_loop"
                       /\ UNCHANGED <<click_success, returnVars>>
    /\ UNCHANGED <<parserVars, clientVars, sessionVars, variant, check_response, alternates, episodeVars,
                   selected_index, decisionQueries, negChecks, posChecks,
                   finalVars>>

\* if not click_success: return None
CollectorAfterLoop ==
    /\ variant = "collector" /\ pc = "after_loop"
    /\ IF ~click_success
       THEN RoundReturns(FALSE, NoRecord, "verify")
       ELSE pc' = "result_capture" /\ UNCHANGED returnVars
    /\ UNCHANGED <<parserVars, clientVars, sessionVars, variant, check_response, historyVars, episodeVars,
                   roundVars, portVars, finalVars>>

\* result_screenshot = self.capture_and_save(episode_id, round_num, "result")
\* if result_screenshot is None: return None
CollectorCaptureResult ==
    /\ variant = "collector" /\ pc = "result_capture"
    /\ \E ok \in BOOLEAN :
          /\ PortAnswers(ok)
          /\ IF ok
             THEN pc' = "tap_next" /\ UNCHANGED returnVars
             ELSE RoundReturns(FALSE, NoRecord, "result_capture")
    /\ UNCHANGED <<parserVars, clientVars, sessionVars, variant, check_response, alternates, episodeVars,
                   roundVars, portVars, finalVars>>

\* success = self.controller.tap(next_x, next_y, delay=1.0)
\* if not success: return None
\* return metadata
CollectorTapNext ==
    /\ variant = "collector" /\ pc = "tap_next"
    /\ \E ok \in BOOLEAN :
          /\ PortAnswers(ok)
          /\ tapLog' = Append(tapLog,
                 TapEntry("next", collector_next_button_position, ok))
          /\ IF ok
             THEN RoundReturns(TRUE,
                      [round |-> completed_rounds + 1,
                       selected_index |-> selected_index,
                       click_position |->
                           PositionOf(collector_card_positions, selected_index)],
                      "none")
             ELSE RoundReturns(FALSE, NoRecord, "next_tap")
    /\ UNCHANGED <<parserVars, clientVars, sessionVars, variant, check_response, alternates, episodeVars,
                   roundVars, decisionQueries, negChecks, posChecks, finalVars>>

\* (mutant of CollectorAfterRound: the round is counted, its record not kept)
CollectorAfterRoundMutNoAppend ==
    /\ variant = "collector" /\ pc = "round_done"
    /\ IF round_metadata # NoRecord
       THEN /\ rounds' = rounds
            /\ completed_rounds' = completed_rounds + 1
       ELSE UNCHANGED <<rounds, completed_rounds>>
    /\ pc' = "loop"
    /\ ForgetRound
    /\ alternates' = (alternates /\ (round_ok <=> total_attempts % 2 = 0))
    /\ UNCHANGED <<parserVars, clientVars, sessionVars, variant, check_response, allFirstTry,
                   total_attempts, draws, finalVars>>

\* if round_metadata is not None:
\*     episode_metadata["rounds"].append(round_metadata); completed_rounds += 1
CollectorAfterRound ==
    /\ variant = "collector" /\ pc = "round_done"
    /\ IF round_metadata # NoRecord
       THEN /\ rounds' = Append(rounds, round_metadata)
            /\ completed_rounds' = completed_rounds + 1
       ELSE UNCHANGED <<rounds, completed_rounds>>
    /\ pc' = "loop"
    /\ ForgetRound
    /\ alternates' = (alternates /\ (round_ok <=> total_attempts % 2 = 0))
    /\ UNCHANGED <<parserVars, clientVars, sessionVars, variant, check_response, allFirstTry,
                   total_attempts, draws, finalVars>>

\* final_screenshot_path = self.capture_and_save(episode_id, 99, "final")
CollectorCaptureFinal ==
    /\ variant = "collector" /\ pc = "final_capture"
    /\ \E ok \in BOOLEAN :
          /\ PortAnswers(ok)
          /\ final_screenshot' = IF ok THEN "saved" ELSE "failed"
    /\ pc' = "save"
    /\ UNCHANGED <<parserVars, clientVars, sessionVars, variant, check_response, alternates, episodeVars,
                   roundVars, portVars, returnVars, final_score, record, saved,
                   now, final_file>>

\* episode_metadata["completed_rounds"] = completed_rounds
\* episode_metadata["success"] = completed_rounds == 10
\* json.dump(episode_metadata, f)
CollectorSaveMetadata ==
    /\ variant = "collector" /\ pc = "save"
    /\ record' = [written |-> TRUE,
                  rounds |-> rounds,
                  completed_rounds |-> completed_rounds,
                  success |-> (completed_rounds = 10),
                  final_screenshot |-> (final_screenshot = "saved")]
    /\ saved' = saved + 1
    /\ pc' = "done"
    /\ UNCHANGED <<parserVars, clientVars, sessionVars, variant, check_response, historyVars, episodeVars,
                   roundVars, portVars, returnVars, final_screenshot,
                   final_score, now, final_file>>

----------------------------------------------------------------------------
(***************************************************************************)
(* The parser run: a text is built piece by piece and then parsed.         *)
(***************************************************************************)
\* No summary file / no total summary written.
NoSummary == [device_id |-> <<>>, kind |-> "none", successful_episodes |-> 0]
NoTotalSummary == [written |-> FALSE]

\* No session is running.
SessionIdle ==
    /\ driver = "none"
    /\ parallel = FALSE
    /\ devices = <<>>
    /\ episodes = 0
    /\ sessionPc = "idle"
    /\ next_device = 1
    /\ worker = <<>>
    /\ returned = <<>>
    /\ start_episode_id = <<>>
    /\ dirs = {}
    /\ summary_files = <<>>
    /\ files = {}
    /\ writes = {}
    /\ episode_index = <<>>
    /\ collected = <<>>
    /\ resets = <<>>
    /\ found_files = <<>>
    /\ used_ids = <<>>
    /\ last_begun = <<>>
    /\ in_order = TRUE
    /\ all_summaries = <<>>
    /\ total_summary = NoTotalSummary

\* No exchange with the model server.
NoExchange == [kind |-> "none", status_code |-> 0, json |-> "none", text |-> <<>>]

\* No model call is being followed.
ClientIdle ==
    /\ caller = "none"
    /\ model_type = "none"
    /\ exchange = NoExchange
    /\ requests_posted = 0
    /\ clientPc = "idle"
    /\ reply = <<>>
    /\ query_raised = FALSE
    /\ answer = None

ParserIdle ==
    /\ response = <<>>
    /\ nAppended = 0
    /\ parsed = FALSE
    /\ result = None

\* The state of a controller before its episode run starts.
RunStarts(v) ==
    /\ variant = v
    /\ pc = "loop"
    /\ completed_rounds = 0
    /\ total_attempts = 0
    /\ rounds = <<>>
    /\ draws = 0
    /\ selected_index = None
    /\ retry = 0
    /\ click_success = FALSE
    /\ round_ok = FALSE
    /\ round_metadata = NoRecord
    /\ tapLog = <<>>
    /\ decisionQueries = 0
    /\ negChecks = 0
    /\ posChecks = 0
    /\ check_response = NoCheck
    /\ failReason = "none"
    /\ raised = "none"
    /\ final_screenshot = "none"
    /\ final_score = None
    /\ record = NoEpisodeRecord
    /\ saved = 0
    /\ now = 0
    /\ final_file = NoFile
    /\ allFirstTry = TRUE
    /\ alternates = TRUE

InitParser == ParserIdle /\ ClientIdle /\ RunStarts("agent") /\ SessionIdle

AppendPiece(piece) ==
    /\ ~parsed
    /\ nAppended < MaxPieces
    /\ response' = response \o piece
    /\ nAppended' = nAppended + 1
    /\ UNCHANGED <<parsed, result, clientVars, runVars, sessionVars>>

ParseResponse ==
    /\ ~parsed
    /\ result' = parse_vlm_response(response)
    /\ parsed' = TRUE
    /\ UNCHANGED <<response, nAppended, clientVars, runVars, sessionVars>>

NextParser ==
    \/ \E piece \in Pieces : AppendPiece(piece)
    \/ ParseResponse

SpecParser == InitParser /\ [][NextParser]_vars

----------------------------------------------------------------------------
(***************************************************************************)
(* The episode run of either controller.                                   *)
(***************************************************************************)
Init == ParserIdle /\ ClientIdle /\ SessionIdle /\ \E v \in {"agent", "collector"} : RunStarts(v)

Next ==
    \/ AgentLoopEnter
    \/ AgentLoopExit
    \/ AgentCaptureScreenshot
    \/ AgentMakeDecision
    \/ AgentTapCard
    \/ AgentCheckCapture
    \/ AgentCheckClick
    \/ AgentAfterLoop
    \/ AgentTapNext
    \/ AgentAfterRound
    \/ AgentCaptureFinalScore
    \/ AgentRecognizeScore
    \/ AgentSaveResults
    \/ CollectorLoopEnter
    \/ CollectorLoopExit
    \/ CollectorCaptureQuestion
    \/ CollectorRandomChoice
    \/ CollectorTapCard
    \/ CollectorAfterLoop
    \/ CollectorCaptureResult
    \/ CollectorTapNext
    \/ CollectorAfterRound
    \/ CollectorCaptureFinal
    \/ CollectorSaveMetadata

Spec == Init /\ [][Next]_vars

\* The controller keeps running while it has a step to take.
SpecLive == Spec /\ WF_vars(Next)

----------------------------------------------------------------------------
(***************************************************************************)
(* The session drivers: collect_data.main with collect_from_device, and    *)
(* play_agent.main.  A device identifier is a sequence of characters.      *)
(***************************************************************************)
\* The identifiers "h:5", "h.5", "h_5" and "e5".
DeviceIds ==
    {<<"h", ":", "5">>, <<"h", ".", "5">>, <<"h", "_", "5">>, <<"e", "5">>}

\* args.devices: one identifier or more (nargs="+"); nothing keeps an
\* identifier from being named more than once.
DeviceLists == UNION {[1..n -> DeviceIds] : n \in 1..MaxDevices}

\* args.episodes (type=int): a number of episodes, or a negative number.
EpisodeCounts == {-1, 1, 2}

\* str.replace(old, new) on single characters
Replace(str, old, new) == [i \in 1..Len(str) |-> IF str[i] = old THEN new ELSE str[i]]

\* DataCollector.__init__: device_id.replace(":", "_").replace(".", "_")
safe_device_id(device_id) == Replace(Replace(device_id, ":", "_"), ".", "_")

\* The sub-path under the output directory that the work for a device uses:
\* Path(output_dir) / safe_device_id, Path(screenshot_dir) / device_id.replace(":", "_")
OutputDir(drv, device_id) ==
    IF drv = "collect_data"
    THEN safe_device_id(device_id)
    ELSE Replace(device_id, ":", "_")

\* File names under an output directory.
SummaryFile == [kind |-> "collection_summary", id |-> 0]
EpisodeFile(episode_id) == [kind |-> "episode_metadata", id |-> episode_id]
ResultFile(stamp) == [kind |-> "result", id |-> stamp]
\* A file name that glob("episode_*_metadata.json") finds and the pattern
\* episode_(\d+)_metadata\.json does not match, as episode_old_metadata.json.
UnnumberedFile == [kind |-> "episode_unnumbered", id |-> 0]

\* What an output directory may hold from earlier sessions when this one
\* starts: nothing, or files under h_5.
ExistingFiles ==
    LET dir == <<"h", "_", "5">>
    IN {{},
        {<<dir, UnnumberedFile>>},
        {<<dir, EpisodeFile(1)>>, <<dir, EpisodeFile(3)>>, <<dir, UnnumberedFile>>}}

\* The files a directory holds.
FilesIn(dir) == {x[2] : x \in {y \in files : y[1] = dir}}

\* (mutant of find_next_episode_id: the numbering always starts at 1)
find_next_episode_idMutOne(dir) == 1

\* _find_next_episode_id: 1 if glob finds nothing; else the largest episode id
\* among the names the pattern matches, plus 1; 1 if it matches none.
find_next_episode_id(dir) ==
    LET existing_episodes ==
            {f \in FilesIn(dir) : f.kind \in {"episode_metadata", "episode_unnumbered"}}
        episode_ids == {f.id : f \in {g \in existing_episodes : g.kind = "episode_metadata"}}
    IN IF existing_episodes = {} THEN 1
       ELSE IF episode_ids # {} THEN SetMax(episode_ids) + 1
       ELSE 1

\* completed_rounds of an episode when collect_one_episode's loop has ended.
EpisodeOutcomes == {7, 10}

\* episode_metadata as collect_one_episode returns it.
EpisodeMetadata(episode_id, completed) ==
    [episode_id |-> episode_id,
     completed_rounds |-> completed,
     success |-> (completed = 10)]

RECURSIVE SumSeq(_)
\* sum(...) over a list of numbers
SumSeq(s) == IF s = <<>> THEN 0 ELSE s[1] + SumSeq(Tail(s))

\* dict.get(field, 0)
GetOr0(d, field) == IF field \in DOMAIN d THEN d[field] ELSE 0

\* The summary collect_data writes, and the entry collect_from_device returns
\* when an exception was caught.
DeviceSummary(device_id, num_episodes, eps) ==
    [device_id |-> device_id,
     kind |-> "summary",
     total_episodes |-> num_episodes,
     successful_episodes |->
         SumSeq([k \in 1..Len(eps) |-> IF eps[k].success THEN 1 ELSE 0]),
     total_rounds_collected |->
         SumSeq([k \in 1..Len(eps) |-> eps[k].completed_rounds]),
     episodes |-> eps]
ErrorEntry(device_id) == [device_id |-> device_id, kind |-> "error", success |-> FALSE]
GameResult(device_id) == [device_id |-> device_id, kind |-> "result"]

\* total_summary as main builds it from all_summaries.
TotalSummary(summaries) ==
    [written |-> TRUE,
     total_devices |-> Len(devices),
     episodes_per_device |-> episodes,
     total_episodes_collected |->
         SumSeq([k \in 1..Len(summaries) |-> GetOr0(summaries[k], "total_episodes")]),
     successful_episodes |->
         SumSeq([k \in 1..Len(summaries) |-> GetOr0(summaries[k], "successful_episodes")]),
     total_rounds_collected |->
         SumSeq([k \in 1..Len(summaries) |-> GetOr0(summaries[k], "total_rounds_collected")]),
     device_summaries |-> summaries]

Positions == 1..Len(devices)
DirOf(i) == OutputDir(driver, devices[i])

\* mkdir(parents=True, exist_ok=True)
Mkdir(dir) ==
    /\ dirs' = dirs \cup {dir}
    /\ summary_files' =
          [d \in dirs \cup {dir} |-> IF d \in dirs THEN summary_files[d] ELSE NoSummary]

\* collect_data.main: if args.parallel and len(args.devices) > 1, every device
\* is submitted to the executor; else the devices are taken in order.
CollectMainStart ==
    /\ driver = "collect_data" /\ sessionPc = "start"
    /\ IF parallel /\ Len(devices) > 1
       THEN /\ sessionPc' = "parallel"
            /\ worker' = [i \in Positions |-> "create"]
       ELSE /\ sessionPc' = "sequential"
            /\ UNCHANGED worker
    /\ UNCHANGED <<parserVars, clientVars, runVars, argVars, next_device, returned,
                   start_episode_id, diskVars, loopVars, traceVars, outVars>>

\* for device_id in args.devices: summary = collect_from_device(device_id, ...)
CollectMainNext ==
    /\ driver = "collect_data" /\ sessionPc = "sequential"
    /\ next_device <= Len(devices)
    /\ worker[next_device] = "idle"
    /\ worker' = [worker EXCEPT ![next_device] = "create"]
    /\ UNCHANGED <<parserVars, clientVars, runVars, argVars, sessionPc, next_device,
                   returned, start_episode_id, diskVars, loopVars, traceVars, outVars>>

\* collect_from_device: collector = DataCollector(device_id, ...).  The output
\* directory is made and searched for episodes, then the device is connected;
\* an exception of ADBController is caught and an error entry returned.
WorkerCreateCollector(i) ==
    /\ driver = "collect_data"
    /\ worker[i] = "create"
    /\ Mkdir(DirOf(i))
    /\ start_episode_id' = [start_episode_id EXCEPT ![i] = find_next_episode_id(DirOf(i))]
    /\ found_files' = [found_files EXCEPT ![i] = FilesIn(DirOf(i))]
    /\ \E connected \in BOOLEAN :
          IF connected
          THEN /\ worker' = [worker EXCEPT ![i] = "collect"]
               /\ UNCHANGED returned
          ELSE /\ worker' = [worker EXCEPT ![i] = "returned"]
               /\ returned' = [returned EXCEPT ![i] = ErrorEntry(devices[i])]
    /\ UNCHANGED <<parserVars, clientVars, runVars, argVars, sessionPc, next_device,
                   files, writes, loopVars, used_ids, last_begun, in_order, outVars>>

\* collect_data: for i in range(num_episodes): episode_id = self.start_episode_id + i
\* and collect_one_episode(episode_id) starts playing its rounds.
WorkerBeginEpisode(i) ==
    /\ driver = "collect_data"
    /\ worker[i] = "collect"
    /\ episode_index[i] < episodes
    /\ LET episode_id == start_episode_id[i] + episode_index[i]
       IN /\ used_ids' = [used_ids EXCEPT ![i] = Append(@, episode_id)]
          /\ in_order' = (in_order /\ episode_id > last_begun[devices[i]])
          /\ last_begun' = [last_begun EXCEPT ![devices[i]] = episode_id]
    /\ worker' = [worker EXCEPT ![i] = "episode"]
    /\ UNCHANGED <<parserVars, clientVars, runVars, argVars, sessionPc, next_device,
                   returned, start_episode_id, diskVars, loopVars, found_files, outVars>>

\* collect_one_episode ends: the episode metadata is written to
\* episode_<id>_metadata.json and appended to self.episodes.  Back in
\* collect_data: if i < num_episodes - 1 the browser is to be refreshed.
WorkerEndEpisode(i) ==
    /\ driver = "collect_data"
    /\ worker[i] = "episode"
    /\ LET episode_id == start_episode_id[i] + episode_index[i]
       IN \E completed \in EpisodeOutcomes :
             /\ files' = files \cup {<<DirOf(i), EpisodeFile(episode_id)>>}
             /\ writes' = writes \cup {<<DirOf(i), EpisodeFile(episode_id), devices[i]>>}
             /\ collected' =
                   [collected EXCEPT ![i] = Append(@, EpisodeMetadata(episode_id, completed))]
    /\ resets' = [resets EXCEPT ![i] = 0]
    /\ IF episode_index[i] < episodes - 1
       THEN /\ worker' = [worker EXCEPT ![i] = "refresh"]
            /\ UNCHANGED episode_index
       ELSE /\ worker' = [worker EXCEPT ![i] = "collect"]
            /\ episode_index' = [episode_index EXCEPT ![i] = @ + 1]
    /\ UNCHANGED <<parserVars, clientVars, runVars, argVars, sessionPc, next_device,
                   returned, start_episode_id, dirs, summary_files, traceVars, outVars>>

\* self.refresh_browser(), then the next pass of the for loop.
WorkerRefreshBrowser(i) ==
    /\ driver = "collect_data"
    /\ worker[i] = "refresh"
    /\ resets' = [resets EXCEPT ![i] = @ + 1]
    /\ episode_index' = [episode_index EXCEPT ![i] = @ + 1]
    /\ worker' = [worker EXCEPT ![i] = "collect"]
    /\ UNCHANGED <<parserVars, clientVars, runVars, argVars, sessionPc, next_device,
                   returned, start_episode_id, diskVars, collected, traceVars, outVars>>

\* collect_data after the loop: the summary is built from self.episodes and
\* written to collection_summary.json under the output directory.
WorkerWriteSummary(i) ==
    /\ driver = "collect_data"
    /\ worker[i] = "collect"
    /\ ~(episode_index[i] < episodes)
    /\ summary_files' =
          [summary_files EXCEPT ![DirOf(i)] = DeviceSummary(devices[i], episodes, collected[i])]
    /\ files' = files \cup {<<DirOf(i), SummaryFile>>}
    /\ writes' = writes \cup {<<DirOf(i), SummaryFile, devices[i]>>}
    /\ worker' = [worker EXCEPT ![i] = "read"]
    /\ UNCHANGED <<parserVars, clientVars, runVars, argVars, sessionPc, next_device,
                   returned, start_episode_id, dirs, loopVars, traceVars, outVars>>

\* with open(summary_file) as f: return json.load(f)
WorkerReadSummary(i) ==
    /\ driver = "collect_data"
    /\ worker[i] = "read"
    /\ returned' = [returned EXCEPT ![i] = summary_files[DirOf(i)]]
    /\ worker' = [worker EXCEPT ![i] = "returned"]
    /\ UNCHANGED <<parserVars, clientVars, runVars, argVars, sessionPc, next_device,
                   start_episode_id, diskVars, loopVars, traceVars, outVars>>

\* all_summaries.append(summary): of the device just processed (sequential),
\* or of any future that has completed (as_completed).
CollectMainAppend(i) ==
    /\ driver = "collect_data"
    /\ worker[i] = "returned"
    /\ \/ sessionPc = "parallel" /\ UNCHANGED next_device
       \/ sessionPc = "sequential" /\ i = next_device /\ next_device' = next_device + 1
    /\ all_summaries' = Append(all_summaries, returned[i])
    /\ worker' = [worker EXCEPT ![i] = "appended"]
    /\ UNCHANGED <<parserVars, clientVars, runVars, argVars, sessionPc, returned,
                   start_episode_id, diskVars, loopVars, traceVars, total_summary>>

\* After the loop (or the with block of the executor): total_summary is built
\* and written to total_summary.json.
CollectMainTotalSummary ==
    /\ driver = "collect_data"
    /\ sessionPc \in {"parallel", "sequential"}
    /\ \A i \in Positions : worker[i] = "appended"
    /\ total_summary' = TotalSummary(all_summaries)
    /\ sessionPc' = "done"
    /\ UNCHANGED <<parserVars, clientVars, runVars, argVars, next_device, worker,
                   returned, start_episode_id, diskVars, loopVars, traceVars,
                   all_summaries>>

\* play_agent.main: if args.parallel: args.parallel = False (not implemented)
AgentMainStart ==
    /\ driver = "play_agent" /\ sessionPc = "start"
    /\ parallel' = FALSE
    /\ sessionPc' = "sequential"
    /\ UNCHANGED <<parserVars, clientVars, runVars, driver, devices, episodes,
                   next_device, worker, returned, start_episode_id, diskVars,
                   loopVars, traceVars, outVars>>

\* for device_id in args.devices: agent = GameAgent(device_id, ...).  The
\* screenshot directory is made, then the device is connected; an exception of
\* ADBController is not caught and leaves main.
AgentMainCreateAgent ==
    /\ driver = "play_agent" /\ sessionPc = "sequential"
    /\ next_device <= Len(devices)
    /\ worker[next_device] = "idle"
    /\ Mkdir(DirOf(next_device))
    /\ \E connected \in BOOLEAN :
          IF connected
          THEN /\ worker' = [worker EXCEPT ![next_device] = "run"]
               /\ UNCHANGED sessionPc
          ELSE /\ sessionPc' = "crashed"
               /\ UNCHANGED worker
    /\ UNCHANGED <<parserVars, clientVars, runVars, argVars, next_device, returned,
                   start_episode_id, files, writes, loopVars, traceVars, outVars>>

\* for episode in range(1, args.episodes + 1): agent.run_game() starts playing
\* its rounds.
AgentMainBeginGame ==
    /\ driver = "play_agent" /\ sessionPc = "sequential"
    /\ next_device <= Len(devices)
    /\ worker[next_device] = "run"
    /\ episode_index[next_device] < episodes
    /\ worker' = [worker EXCEPT ![next_device] = "episode"]
    /\ UNCHANGED <<parserVars, clientVars, runVars, argVars, sessionPc, next_device,
                   returned, start_episode_id, diskVars, loopVars, traceVars, outVars>>

\* result = agent.run_game(); all_results.append(result).  run_game writes
\* result_<timestamp>.json; an exception it raises leaves main.  Then
\* time.sleep(5) if another episode follows, and the next pass of the loop.
AgentMainRunGame ==
    /\ driver = "play_agent" /\ sessionPc = "sequential"
    /\ next_device <= Len(devices)
    /\ worker[next_device] = "episode"
    /\ \E outcome \in {"result", "raised"} :
          IF outcome = "result"
          THEN /\ files' = files \cup
                      {<<DirOf(next_device), ResultFile(Len(all_summaries) + 1)>>}
               /\ writes' = writes \cup
                      {<<DirOf(next_device), ResultFile(Len(all_summaries) + 1),
                         devices[next_device]>>}
               /\ all_summaries' = Append(all_summaries, GameResult(devices[next_device]))
               /\ resets' = [resets EXCEPT ![next_device] = 0]
               /\ episode_index' = [episode_index EXCEPT ![next_device] = @ + 1]
               /\ worker' = [worker EXCEPT ![next_device] = "run"]
               /\ UNCHANGED sessionPc
          ELSE /\ sessionPc' = "crashed"
               /\ UNCHANGED <<files, writes, all_summaries, resets, episode_index, worker>>
    /\ UNCHANGED <<parserVars, clientVars, runVars, argVars, next_device, returned,
                   start_episode_id, dirs, summary_files, collected, traceVars,
                   total_summary>>

\* The episodes of the device are played: the next device of the list.
AgentMainNextDevice ==
    /\ driver = "play_agent" /\ sessionPc = "sequential"
    /\ next_device <= Len(devices)
    /\ worker[next_device] = "run"
    /\ ~(episode_index[next_device] < episodes)
    /\ worker' = [worker EXCEPT ![next_device] = "appended"]
    /\ next_device' = next_device + 1
    /\ UNCHANGED <<parserVars, clientVars, runVars, argVars, sessionPc, returned,
                   start_episode_id, diskVars, loopVars, traceVars, outVars>>

\* The loop over the devices has ended: the closing lines are printed.
AgentMainFinish ==
    /\ driver = "play_agent" /\ sessionPc = "sequential"
    /\ next_device > Len(devices)
    /\ sessionPc' = "done"
    /\ UNCHANGED <<parserVars, clientVars, runVars, argVars, next_device, worker,
                   returned, start_episode_id, diskVars, loopVars, traceVars, outVars>>

InitSession ==
    /\ ParserIdle
    /\ ClientIdle
    /\ RunStarts("agent")
    /\ driver \in {"collect_data", "play_agent"}
    /\ parallel \in BOOLEAN
    /\ devices \in DeviceLists
    /\ episodes \in EpisodeCounts
    /\ sessionPc = "start"
    /\ next_device = 1
    /\ worker = [i \in 1..Len(devices) |-> "idle"]
    /\ returned = [i \in 1..Len(devices) |-> NoSummary]
    /\ start_episode_id = [i \in 1..Len(devices) |-> 0]
    /\ dirs = {}
    /\ summary_files = <<>>
    /\ files \in ExistingFiles
    /\ driver = "play_agent" => files = {}
    /\ writes = {}
    /\ episode_index = [i \in 1..Len(devices) |-> 0]
    /\ collected = [i \in 1..Len(devices) |-> <<>>]
    /\ resets = [i \in 1..Len(devices) |-> 0]
    /\ found_files = [i \in 1..Len(devices) |-> {}]
    /\ used_ids = [i \in 1..Len(devices) |-> <<>>]
    /\ last_begun = [d \in DeviceIds |-> 0]
    /\ in_order = TRUE
    /\ all_summaries = <<>>
    /\ total_summary = NoTotalSummary

NextSession ==
    \/ CollectMainStart
    \/ CollectMainNext
    \/ \E i \in Positions : WorkerCreateCollector(i)
    \/ \E i \in Positions : WorkerBeginEpisode(i)
    \/ \E i \in Positions : WorkerEndEpisode(i)
    \/ \E i \in Positions : WorkerRefreshBrowser(i)
    \/ \E i \in Positions : WorkerWriteSummary(i)
    \/ \E i \in Positions : WorkerReadSummary(i)
    \/ \E i \in Positions : CollectMainAppend(i)
    \/ CollectMainTotalSummary
    \/ AgentMainStart
    \/ AgentMainCreateAgent
    \/ AgentMainBeginGame
    \/ AgentMainRunGame
    \/ AgentMainNextDevice
    \/ AgentMainFinish

SpecSession == InitSession /\ [][NextSession]_vars

----------------------------------------------------------------------------
(***************************************************************************)
(* The model client: VLMClient.query with its two backends, called by      *)
(* GameAgent.make_decision and GameAgent.recognize_score.                  *)
(***************************************************************************)
\* The tokens of a reply to the score prompt.
ScoreTokens == Digits \cup {"fenshu", "shuzi", "shi", "wei", ":", "fwcolon", " ", "x"}

\* The replies to the score prompt: every text of at most MaxReplyLen tokens.
ScoreTexts == UNION {[1..n -> ScoreTokens] : n \in 0..MaxReplyLen}

\* What the server may put into a well-formed answer, by caller.
ReplyTexts(c) == IF c = "recognize_score" THEN ScoreTexts ELSE DecisionResponses

\* What an answer with a status other than 200 may carry as its body.
ErrorBodies == {<<>>, <<"x">>, <<"<action>", "select(", "1", ")", "</action>">>, <<"1", "0">>}

\* What can happen to one call of query: the image cannot be encoded; the
\* request fails in transport (timeout after 60 s, connection refused); the
\* server answers with a status other than 200; it answers 200 with a body
\* that is no JSON, or JSON without the field read, or with a text in it.
Exchanges(c) ==
    {[kind |-> "encode_error", status_code |-> 0, json |-> "none", text |-> <<>>],
     [kind |-> "transport_error", status_code |-> 0, json |-> "none", text |-> <<>>]}
    \cup {[kind |-> "http", status_code |-> st, json |-> "text", text |-> b] :
             st \in {201, 404, 500}, b \in ErrorBodies}
    \cup {[kind |-> "http", status_code |-> 200, json |-> j, text |-> <<>>] :
             j \in {"malformed", "field_missing"}}
    \cup {[kind |-> "http", status_code |-> 200, json |-> "text", text |-> t] :
             t \in ReplyTexts(c)}

\* query: img_base64 = self._image_to_base64(image), outside any try; then the
\* backend of model_type is called.
ClientQuery ==
    /\ clientPc = "query"
    /\ IF exchange.kind = "encode_error"
       THEN /\ query_raised' = TRUE
            /\ clientPc' = "returned"
       ELSE /\ clientPc' = "post"
            /\ UNCHANGED query_raised
    /\ UNCHANGED <<parserVars, runVars, sessionVars, caller, model_type, exchange,
                   requests_posted, reply, answer>>

\* (mutant of ClientQueryVllm: the body is returned whatever the status code)
ClientQueryVllmMutNoStatusCheck ==
    /\ clientPc = "post" /\ model_type = "vllm"
    /\ requests_posted' = requests_posted + 1
    /\ reply' = IF exchange.kind = "transport_error" THEN <<>> ELSE exchange.text
    /\ clientPc' = "returned"
    /\ UNCHANGED <<parserVars, runVars, sessionVars, caller, model_type, exchange,
                   query_raised, answer>>

\* _query_ollama: one requests.post; status 200: result.get("response", "");
\* any other status: ""; except Exception (transport, response.json()): "".
ClientQueryOllama ==
    /\ clientPc = "post" /\ model_type = "ollama"
    /\ requests_posted' = requests_posted + 1
    /\ reply' =
          IF exchange.kind = "transport_error" THEN <<>>
          ELSE IF exchange.status_code = 200
               THEN CASE exchange.json = "malformed" -> <<>>
                      [] exchange.json = "field_missing" -> <<>>
                      [] OTHER -> exchange.text
               ELSE <<>>
    /\ clientPc' = "returned"
    /\ UNCHANGED <<parserVars, runVars, sessionVars, caller, model_type, exchange,
                   query_raised, answer>>

\* _query_vllm: one requests.post; status 200:
\* result["choices"][0]["message"]["content"]; any other status: "";
\* except Exception (transport, response.json(), KeyError): "".
ClientQueryVllm ==
    /\ clientPc = "post" /\ model_type = "vllm"
    /\ requests_posted' = requests_posted + 1
    /\ reply' =
          IF exchange.kind = "transport_error" THEN <<>>
          ELSE IF exchange.status_code = 200
               THEN CASE exchange.json = "malformed" -> <<>>
                      [] exchange.json = "field_missing" -> <<>>
                      [] OTHER -> exchange.text
               ELSE <<>>
    /\ clientPc' = "returned"
    /\ UNCHANGED <<parserVars, runVars, sessionVars, caller, model_type, exchange,
                   query_raised, answer>>

\* make_decision: response = self.vlm_client.query(screenshot, prompt)
\* selected_index = self.parse_vlm_response(response); return selected_index.
\* (An exception of query leaves make_decision: nothing is returned.)
CallerMakeDecision ==
    /\ clientPc = "returned" /\ caller = "make_decision"
    /\ ~query_raised
    /\ answer' = parse_vlm_response(reply)
    /\ clientPc' = "done"
    /\ UNCHANGED <<parserVars, runVars, sessionVars, caller, model_type, exchange,
                   requests_posted, reply, query_raised>>

\* (mutant of CallerRecognizeScore: the last number of the reply is taken)
CallerRecognizeScoreMutLast ==
    /\ clientPc = "returned" /\ caller = "recognize_score"
    /\ answer' = IF query_raised \/ FirstFound(<<DigitRun>>, reply) = NoMatch THEN None
                 ELSE IntOf(FirstFoundMutLast(<<DigitRun>>, reply))
    /\ clientPc' = "done"
    /\ UNCHANGED <<parserVars, runVars, sessionVars, caller, model_type, exchange,
                   requests_posted, reply, query_raised>>

\* recognize_score: response = self.vlm_client.query(screenshot, prompt), the
\* patterns are tried in order; except Exception: return None.
CallerRecognizeScore ==
    /\ clientPc = "returned" /\ caller = "recognize_score"
    /\ answer' = IF query_raised THEN None ELSE recognize_score(reply)
    /\ clientPc' = "done"
    /\ UNCHANGED <<parserVars, runVars, sessionVars, caller, model_type, exchange,
                   requests_posted, reply, query_raised>>

InitClient ==
    /\ ParserIdle
    /\ RunStarts("agent")
    /\ SessionIdle
    /\ caller \in {"make_decision", "recognize_score"}
    /\ model_type \in {"ollama", "vllm"}
    /\ exchange \in Exchanges(caller)
    /\ requests_posted = 0
    /\ clientPc = "query"
    /\ reply = <<>>
    /\ query_raised = FALSE
    /\ answer = None

NextClient ==
    \/ ClientQuery
    \/ ClientQueryOllama
    \/ ClientQueryVllm
    \/ CallerMakeDecision
    \/ CallerRecognizeScore

SpecClient == InitClient /\ [][NextClient]_vars

----------------------------------------------------------------------------
(***************************************************************************)
(* Properties of parse_vlm_response.  What a text contains is stated here  *)
(* on the text itself, not through the pattern matcher above.              *)
(***************************************************************************)
RECURSIVE Decimal(_)
\* The number a run of digits denotes.
Decimal(run) ==
    IF Len(run) = 0 THEN 0
    ELSE DigitVal(run[Len(run)]) + 10 * Decimal(SubSeq(run, 1, Len(run) - 1))

Decisions == {0, 1, 2}

\* A tagged directive <action>select(digits)</action> starts at position i.
TaggedAt(text, i) ==
    /\ i + 1 <= Len(text)
    /\ text[i] = "<action>"
    /\ text[i + 1] \in {"select(", "SELECT("}
    /\ LET j == SkipWhile(text, i + 2, Digits)
       IN /\ j > i + 2
          /\ j + 1 <= Len(text)
          /\ text[j] = ")"
          /\ text[j + 1] = "</action>"

TaggedValue(text, i) ==
    Decimal(SubSeq(text, i + 2, SkipWhile(text, i + 2, Digits) - 1))

TaggedPositions(text) == {i \in 1..Len(text) : TaggedAt(text, i)}

\* The literal directive <action>select(N)</action> with one digit N.
LiteralTaggedAt(text, i, d) ==
    /\ i + 4 <= Len(text)
    /\ SubSeq(text, i, i + 4) = <<"<action>", "select(", d, ")", "</action>">>

\* The maximal runs of digits of a text, by their start positions.
DigitRunStarts(text) ==
    {i \in 1..Len(text) :
        text[i] \in Digits /\ (i = 1 \/ text[i - 1] \notin Digits)}

RunValueAt(text, i) == Decimal(SubSeq(text, i, SkipWhile(text, i, Digits) - 1))

\* The text has numeric content, and all of it lies outside {0,1,2}.
NumericOutside(text) ==
    /\ DigitRunStarts(text) # {}
    /\ \A i \in DigitRunStarts(text) : RunValueAt(text, i) \notin Decisions

\* The characters a, b, c in either case, as they begin a token.
LetterOrdinal(tok) ==
    CASE tok \in {"a", "answer"} -> 0
      [] tok = "B" -> 1
      [] tok = "c" -> 2
      [] OTHER -> None

\* The option-letter pattern (xuanxiang, blanks, a letter a/b/c) starts at i.
OptionLetterAt(text, i) ==
    /\ text[i] = "xuanxiang"
    /\ LET j == SkipWhile(text, i + 1, {" "})
       IN j <= Len(text) /\ LetterOrdinal(text[j]) # None

OptionPositions(text) == {i \in 1..Len(text) : OptionLetterAt(text, i)}

\* The ordinal of the letter of the first option-letter pattern.
FirstOptionOrdinal(text) ==
    LetterOrdinal(text[SkipWhile(text, SetMin(OptionPositions(text)) + 1, {" "})])

\* The tagged directive or one of the six numeric patterns of strategy 2
\* yields a value in {0,1,2}.
NumericRuleDecides(text) ==
    \/ /\ FirstFound(action_pattern, text) # NoMatch
       /\ Decimal(FirstFound(action_pattern, text)) \in Decisions
    \/ \E k \in 1..6 :
          /\ FirstFound(index_patterns[k], text) # NoMatch
          /\ Decimal(FirstFound(index_patterns[k], text)) \in Decisions

\* C1: for every response text, the empty one included, parse_vlm_response
\* returns None or an integer in {0,1,2}, never another value.
C1_ResultInDomain == parsed => result \in Decisions \cup {None}

\* C1 witness: a directive carrying a value outside {0,1,2} was parsed and
\* rejected.
C1_Witness ==
    /\ parsed
    /\ result = None
    /\ \E i \in TaggedPositions(response) : TaggedValue(response, i) > 2

\* C2 as stated: whenever the text contains <action>select(N)</action> with N
\* in {0,1,2}, the parser returns that N, whatever surrounds it.
C2_AnyTaggedDirectiveReturned ==
    parsed =>
        \A i \in 1..Len(response) : \A d \in {"0", "1", "2"} :
            LiteralTaggedAt(response, i, d) => result = DigitVal(d)

\* C2 amended: when the first tagged directive of the text carries a value in
\* {0,1,2}, the parser returns that value, whatever surrounds it.
C2_FirstTaggedDirectiveReturned ==
    (parsed /\ TaggedPositions(response) # {}) =>
        LET first == TaggedValue(response, SetMin(TaggedPositions(response)))
        IN first \in Decisions => result = first

\* C2 witness: the first directive is in the domain, another number follows
\* it, and the first directive's value was returned.
C2_Witness ==
    /\ parsed
    /\ TaggedPositions(response) # {}
    /\ LET p == SetMin(TaggedPositions(response))
       IN /\ TaggedValue(response, p) \in Decisions
          /\ result = TaggedValue(response, p)
          /\ \E i \in DigitRunStarts(response) :
                i > p + 2 /\ RunValueAt(response, i) # TaggedValue(response, p)

\* C3 as stated: a text whose only numeric content lies outside {0,1,2} parses
\* to None, also when it contains an option letter.
C3_NumericOutsideGivesNone ==
    (parsed /\ NumericOutside(response)) => result = None

\* C3 amended: a text whose only numeric content lies outside {0,1,2} parses to
\* None unless it contains the option-letter pattern, and then to the ordinal
\* of the first such letter.
C3_NumericOutsideGivesNoneOrLetter ==
    (parsed /\ NumericOutside(response)) =>
        IF OptionPositions(response) = {}
        THEN result = None
        ELSE result = FirstOptionOrdinal(response)

\* C3 witness: a numeric pattern matched a number outside {0,1,2}, no option
\* letter is present, and the parser returned None.
C3_Witness ==
    /\ parsed
    /\ NumericOutside(response)
    /\ OptionPositions(response) = {}
    /\ \E k \in 1..6 : FirstFound(index_patterns[k], response) # NoMatch
    /\ result = None

\* C4 as stated: a text containing the option-letter pattern parses to the
\* ordinal of the letter, whatever else it contains.
C4_OptionLetterReturned ==
    (parsed /\ OptionPositions(response) # {}) =>
        result = FirstOptionOrdinal(response)

\* C4 amended: a text containing the option-letter pattern never parses to
\* None; it parses to the ordinal of the first such letter unless the tagged
\* directive or an earlier numeric pattern yields a value in {0,1,2}.
C4_OptionLetterUnlessNumeric ==
    (parsed /\ OptionPositions(response) # {}) =>
        /\ result \in Decisions
        /\ ~NumericRuleDecides(response) => result = FirstOptionOrdinal(response)

\* C4 witness: an upper-case option letter beside a rejected number.
C4_Witness ==
    /\ parsed
    /\ OptionPositions(response) # {}
    /\ NumericOutside(response)
    /\ FirstOptionOrdinal(response) = 1
    /\ result = 1

----------------------------------------------------------------------------
(***************************************************************************)
(* Properties of the round controllers.  A round's outcome is read when    *)
(* play_one_round has returned (pc = "round_done"), before its result is   *)
(* used by the episode loop.                                               *)
(***************************************************************************)
CardTaps == {i \in 1..Len(tapLog) : tapLog[i].kind = "card"}
NextTaps == {i \in 1..Len(tapLog) : tapLog[i].kind = "next"}
AllTapsOk == \A i \in 1..Len(tapLog) : tapLog[i].ok
AgentRoundReturned == variant = "agent" /\ pc = "round_done"

\* C5: in GameAgent.play_one_round, with a valid decision and every tap and
\* capture succeeding, a verification that is negative k < 3 times and then
\* positive completes the round: it returns True after exactly k+1 card taps
\* followed by the single advance tap.
C5_VerifiedAfterRetriesCompletes ==
    (AgentRoundReturned /\ selected_index \in Decisions /\ AllTapsOk /\ negChecks < 3) =>
        /\ round_ok
        /\ posChecks = 1
        /\ Len(tapLog) = negChecks + 2
        /\ CardTaps = 1..(negChecks + 1)
        /\ NextTaps = {negChecks + 2}

\* C5 witness: two negative verifications, then a positive one, and the round
\* completed.
C5_Witness ==
    /\ AgentRoundReturned
    /\ AllTapsOk
    /\ negChecks = 2
    /\ posChecks = 1
    /\ round_ok

\* C6: in GameAgent.play_one_round, with a valid decision and every tap and
\* capture succeeding, a verification that is negative on every check fails the
\* round: it returns False after exactly 3 card taps and no advance tap.
C6_NeverVerifiedFailsAfterThree ==
    (AgentRoundReturned /\ selected_index \in Decisions /\ AllTapsOk /\ posChecks = 0) =>
        /\ ~round_ok
        /\ negChecks = 3
        /\ Len(tapLog) = 3
        /\ CardTaps = 1..3
        /\ NextTaps = {}

\* C6 witness: the round failed on its third negative verification.
C6_Witness ==
    /\ AgentRoundReturned
    /\ AllTapsOk
    /\ negChecks = 3
    /\ failReason = "verify"
    /\ ~round_ok

\* C7: a card tap reported as failed is retried within the round; in both
\* controllers the round fails on a failed card tap only after 3 card-tap
\* attempts.
C7_FailedCardTapRetried ==
    (pc = "round_done" /\ failReason = "card_tap") => Cardinality(CardTaps) = 3

\* C8: a screenshot capture that fails during a round (the first capture or the
\* one taken for verification) makes the round return failed and nothing more;
\* no exception leaves the episode run of either controller.
C8_CaptureFailureFailsRoundOnly ==
    failReason \in {"capture", "check_capture", "result_capture"} =>
        /\ pc = "round_done"
        /\ ~round_ok
        /\ raised = "none"

\* C9: in GameAgent.play_one_round, a response that is empty or yields no
\* decision fails the round at once: the model was asked once for the decision,
\* and no card tap, no verification and no advance tap was made.
C9_NoDecisionFailsRoundAtOnce ==
    /\ (AgentRoundReturned /\ selected_index = None) =>
          /\ ~round_ok
          /\ decisionQueries = 1
          /\ tapLog = <<>>
          /\ negChecks + posChecks = 0
    /\ (variant = "agent" /\ (tapLog # <<>> \/ pc = "tap_card")) =>
          selected_index \in Decisions

\* C9 witness: the decision failed and the round has returned.
C9_Witness ==
    /\ AgentRoundReturned
    /\ selected_index = None
    /\ failReason = "decision"
    /\ decisionQueries = 1

\* C10: in both controllers the advance tap is issued at most once per round
\* and only right after a card tap that succeeded and was verified; a round is
\* completed only if its advance tap succeeded, and a failed advance tap fails
\* the round, which then yields no record.
C10_AdvanceTapAfterVerifiedCardTap ==
    /\ Cardinality(NextTaps) <= 1
    /\ \A i \in NextTaps :
          /\ i = Len(tapLog)
          /\ i > 1
          /\ tapLog[i - 1].kind = "card"
          /\ tapLog[i - 1].ok
          /\ click_success
          /\ variant = "agent" => posChecks = 1
    /\ (pc = "round_done" /\ round_ok) =>
          /\ NextTaps # {}
          /\ tapLog[Len(tapLog)].ok
          /\ variant = "collector" => round_metadata # NoRecord
    /\ (pc = "round_done" /\ \E i \in NextTaps : ~tapLog[i].ok) =>
          /\ ~round_ok
          /\ round_metadata = NoRecord

\* C10 witness: the advance tap of a collector round failed and the round
\* returned no record.
C10_Witness ==
    /\ variant = "collector"
    /\ pc = "round_done"
    /\ NextTaps # {}
    /\ ~tapLog[Len(tapLog)].ok
    /\ round_metadata = NoRecord

----------------------------------------------------------------------------
(***************************************************************************)
(* Properties of the episode controllers (run_game, collect_one_episode).  *)
(***************************************************************************)
\* The control points inside one round attempt.
InRound ==
    {"capture", "decide", "tap_card", "check_capture", "check", "after_loop",
     "result_capture", "tap_next", "round_done"}

\* The episode run has ended: it returned, or an exception left it.
EpisodeEnded == pc \in {"done", "raised"}

\* The success flag of the written episode record, if the record has one.
RecordHasSuccess == record.written /\ "success" \in DOMAIN record

\* C11: the episode loop of either controller runs round attempts exactly
\* until 10 rounds are completed or 20 attempts are made: no attempt is under
\* way with 10 rounds completed or beyond the 20th attempt, the loop is left
\* only with 10 completed rounds or 20 attempts, and an episode whose odd
\* attempts all failed and whose even attempts all completed ends with 10
\* completed rounds, 20 attempts and success true.
C11_LoopRunsToTargetOrCeiling ==
    /\ completed_rounds <= 10
    /\ total_attempts <= 20
    /\ pc \in InRound => (completed_rounds < 10 /\ total_attempts >= 1)
    /\ pc \notin (InRound \cup {"loop"}) =>
          (completed_rounds = 10 \/ total_attempts = 20)
    /\ (alternates /\ pc = "done") =>
          /\ completed_rounds = 10
          /\ total_attempts = 20
          /\ RecordHasSuccess
          /\ record.success

\* C12: when the attempt ceiling is reached before 10 rounds are completed,
\* the episode run of either controller ends without an exception leaving it,
\* with fewer than 10 completed rounds and a record whose success flag is false.
C12_CeilingEndsWithoutSuccess ==
    (total_attempts = 20 /\ completed_rounds < 10 /\ pc \notin (InRound \cup {"loop"})) =>
        /\ raised = "none"
        /\ pc = "done" => (RecordHasSuccess /\ ~record.success)

\* C13: each step of the episode loop changes the counters as follows: the
\* attempt count grows by exactly 1 when an attempt starts and at no other
\* step; when a round has failed, the completed-round count and the list of
\* round records stay as they are; when a round has completed, the
\* completed-round count grows by 1 and exactly one round record is appended;
\* no other step changes the completed-round count or the records.
C13_RoundStepCounters ==
    [][/\ (pc = "loop" /\ pc' = "capture") => total_attempts' = total_attempts + 1
       /\ ~(pc = "loop" /\ pc' = "capture") => total_attempts' = total_attempts
       /\ (pc = "round_done" /\ round_ok) =>
             /\ completed_rounds' = completed_rounds + 1
             /\ Len(rounds') = Len(rounds) + 1
             /\ SubSeq(rounds', 1, Len(rounds)) = rounds
       /\ ~(pc = "round_done" /\ round_ok) =>
             /\ completed_rounds' = completed_rounds
             /\ rounds' = rounds]_vars

\* The number of completed rounds the written episode record reports
\* ("completed_rounds" in the collector's record, "total_rounds" in the agent's).
RecordedRounds ==
    IF "completed_rounds" \in DOMAIN record
    THEN record.completed_rounds
    ELSE record.total_rounds

\* C14: the persisted episode record of either controller carries the number
\* of rounds actually completed and a success flag that is true if and only if
\* that number is the target of 10.
C14_RecordCarriesCompletedAndSuccess ==
    record.written =>
        /\ RecordedRounds = completed_rounds
        /\ RecordHasSuccess
        /\ record.success <=> (completed_rounds = 10)

\* C15: for every episode run of either controller, whatever happened in its
\* rounds, in the final capture and in the score extraction, the episode record
\* is written exactly once: never twice, and once the run has ended it has been
\* written; a failed score extraction leaves the score unset (None) in the
\* record and the run still ends normally.
C15_RecordWrittenExactlyOnce ==
    /\ saved <= 1
    /\ EpisodeEnded => (saved = 1 /\ record.written)
    /\ (variant = "agent" /\ pc = "done") => record.final_score = final_score
    /\ pc = "save" => raised = "none"

\* The layout table entry of the collector for a decision, as written in
\* calculate_card_positions: (135, 860), (360, 860), (585, 860).
LayoutEntry(d) ==
    CASE d = 0 -> <<135, 860>>
      [] d = 1 -> <<360, 860>>
      [] d = 2 -> <<585, 860>>

\* A round record with a decision in {0,1,2} and the coordinates of the layout
\* table for that decision.
WellFormedRound(r) ==
    /\ r.selected_index \in Decisions
    /\ r.click_position = LayoutEntry(r.selected_index)

\* C16: every round record stored in an episode record has a decision in
\* {0,1,2} and tap coordinates equal to the layout table entry for that
\* decision (and the card was tapped at those coordinates); a round whose
\* decision is missing or out of the domain is never stored nor counted.
C16_StoredRoundsInDomain ==
    /\ \A i \in 1..Len(rounds) : WellFormedRound(rounds[i]) /\ rounds[i].round = i
    /\ (variant = "collector" /\ record.written) => record.rounds = rounds
    /\ (pc = "round_done" /\ round_metadata # NoRecord) =>
          /\ WellFormedRound(round_metadata)
          /\ round_metadata.selected_index = selected_index
          /\ \A i \in CardTaps : tapLog[i].pos = round_metadata.click_position
    /\ (pc = "round_done" /\ selected_index \notin Decisions) =>
          (~round_ok /\ round_metadata = NoRecord)

\* C16 witness: a written episode record whose first two rounds carry the
\* decisions 2 and 1.
C16_Witness ==
    /\ variant = "collector"
    /\ record.written
    /\ Len(record.rounds) >= 2
    /\ record.rounds[1].selected_index = 2
    /\ record.rounds[2].selected_index = 1
    /\ record.rounds[2].click_position = <<360, 860>>

\* C17: end to end, as long as every capture, tap, decision and verification
\* of an episode has succeeded on the first try, every attempt completes its
\* round with exactly one card tap followed by one advance tap, so attempts and
\* completed rounds advance together; the loop is left after exactly 10
\* attempts (10 card taps and 10 advance taps, alternating), and the collector's
\* record then has a rounds list of length 10 and success true.
C17_AllFirstTryEpisode ==
    allFirstTry =>
        /\ raised = "none"
        /\ pc = "loop" => total_attempts = completed_rounds
        /\ pc \in InRound => total_attempts = completed_rounds + 1
        /\ Len(tapLog) <= 2
        /\ pc = "round_done" =>
              /\ round_ok
              /\ Len(tapLog) = 2
              /\ tapLog[1].kind = "card" /\ tapLog[1].ok
              /\ tapLog[2].kind = "next" /\ tapLog[2].ok
        /\ pc \notin (InRound \cup {"loop"}) =>
              (total_attempts = 10 /\ completed_rounds = 10)
        /\ variant = "collector" => Len(rounds) = completed_rounds
        /\ (variant = "collector" /\ pc = "done") =>
              /\ Len(record.rounds) = 10
              /\ record.success
              /\ \A i \in 1..10 : WellFormedRound(record.rounds[i])

\* C17 witness: a collector episode in which everything succeeded on the first
\* try has ended and its record is written.
C17_Witness ==
    /\ variant = "collector"
    /\ pc = "done"
    /\ allFirstTry
    /\ total_attempts = 10
    /\ record.written

\* C26: in every reachable state of an episode run, completed rounds <= 10,
\* attempts <= 20 and completed rounds <= attempts; in the collector the number
\* of stored round records is the completed-round count and the i-th stored
\* record has round index i, so the stored indices are exactly 1..completed.
C26_CountersAndRecordIndices ==
    /\ completed_rounds \in 0..10
    /\ total_attempts \in 0..20
    /\ completed_rounds <= total_attempts
    /\ variant = "collector" =>
          /\ Len(rounds) = completed_rounds
          /\ {rounds[i].round : i \in 1..Len(rounds)} = 1..completed_rounds
          /\ \A i \in 1..Len(rounds) : rounds[i].round = i
          /\ pc = "round_done" /\ round_metadata # NoRecord =>
                round_metadata.round = completed_rounds + 1

\* C26 witness: a collector episode with 10 stored rounds that needed more
\* than 10 attempts.
C26_Witness ==
    /\ variant = "collector"
    /\ Len(rounds) = 10
    /\ completed_rounds = 10
    /\ total_attempts > 10
    /\ rounds[10].round = 10

\* C27: every episode run terminates: it makes at most 20 round attempts, each
\* with at most 3 card taps and at most 1 advance tap, and then, unless a port
\* call raised instead of returning, reaches the finalization step; whatever
\* the port outcomes, the run eventually ends.
C27_EpisodeTerminatesWithinBudget ==
    /\ [](/\ total_attempts <= 20
          /\ Cardinality(CardTaps) <= 3
          /\ Cardinality(NextTaps) <= 1
          /\ retry < 3)
    /\ <>(pc = "final_capture" \/ raised # "none")
    /\ <>[]EpisodeEnded

\* C27 witness: the finalization step is reached after 20 attempts that did
\* not complete 10 rounds.
C27_Witness ==
    /\ pc = "final_capture"
    /\ total_attempts = 20
    /\ completed_rounds < 10
    /\ raised = "none"

\* C29: the final-state evidence reference stored in the result record that
\* GameAgent.save_results writes names the image file capture_final_score
\* saved for the episode, whatever time elapsed between the two steps.
C29_RecordNamesSavedFinalImage ==
    (variant = "agent" /\ record.written) =>
        /\ final_file # NoFile
        /\ record.final_screenshot = final_file

\* The affirmative tokens, "yes" in each way of writing it the texts have.
Affirmative == {"shi", "chenggong", "gaibian", "yes", "YES", "Yes"}

\* C25: check_click_success returns true exactly when the response holds one
\* of the affirmative tokens; it returns false for the empty response and when
\* the query raised, and such a failed verification is a negative one that
\* has used up one of the round's three tap attempts.
C25_VerificationByKeyword ==
    (variant = "agent" /\ check_response.asked) =>
        /\ click_success =
              (/\ ~check_response.raised
               /\ \E i \in 1..Len(check_response.text) :
                     check_response.text[i] \in Affirmative)
        /\ (check_response.raised \/ check_response.text = <<>>) =>
              /\ ~click_success
              /\ negChecks >= 1
              /\ Cardinality(CardTaps) = negChecks
              /\ pc = "tap_card" => (retry = negChecks /\ retry < max_retry)
              /\ pc = "after_loop" => negChecks = max_retry

\* C25 witness: the second verification of a round got the empty text of a
\* failed request, and the third tap attempt is about to be made.
C25_Witness ==
    /\ variant = "agent"
    /\ check_response.asked
    /\ ~check_response.raised
    /\ check_response.text = <<>>
    /\ ~click_success
    /\ negChecks = 2
    /\ pc = "tap_card"
    /\ retry = 2

\* The call did not get a 200 answer: the request failed in transport, or the
\* server answered with another status.
ExchangeFailed ==
    \/ exchange.kind = "transport_error"
    \/ exchange.kind = "http" /\ exchange.status_code # 200

QueryReturned == clientPc \in {"returned", "done"}

\* C23: VLMClient.query, on either backend, sends at most one request per
\* call; on every transport failure and every answer with a status other than
\* 200 it returns the empty text and does not raise; make_decision then gets
\* no decision from it (parse_vlm_response of the empty text is None).
C23_QueryFailsToEmptyText ==
    /\ requests_posted <= 1
    /\ (QueryReturned /\ ExchangeFailed) =>
          /\ requests_posted = 1
          /\ reply = <<>>
          /\ ~query_raised
    /\ (clientPc = "done" /\ ExchangeFailed /\ caller = "make_decision") => answer = None
    /\ parse_vlm_response(<<>>) = None

\* C23 witness: the vLLM backend got a 500 answer with a body that reads as a
\* decision, and make_decision has returned.
C23_Witness ==
    /\ clientPc = "done"
    /\ caller = "make_decision"
    /\ model_type = "vllm"
    /\ exchange.kind = "http"
    /\ exchange.status_code = 500
    /\ parse_vlm_response(exchange.text) = 1
    /\ requests_posted = 1
    /\ answer = None

\* C24: recognize_score returns the value of the first run of digits of the
\* response, and None exactly when the response holds no digit; the result is
\* what the bare-digit pattern alone gives, the labelled patterns after it
\* changing nothing.
C24_ScoreIsFirstDigitRun ==
    (clientPc = "done" /\ caller = "recognize_score" /\ ~query_raised) =>
        /\ answer = IF DigitRunStarts(reply) = {} THEN None
                    ELSE RunValueAt(reply, SetMin(DigitRunStarts(reply)))
        /\ (answer = None) <=> (\A i \in 1..Len(reply) : reply[i] \notin Digits)
        /\ answer = IF FirstFound(score_patterns[1], reply) = NoMatch THEN None
                    ELSE IntOf(FirstFound(score_patterns[1], reply))

\* C24 witness: a reply with two numbers, of which the first counts.
C24_Witness ==
    /\ clientPc = "done"
    /\ caller = "recognize_score"
    /\ reply = <<"2", "x", "1">>
    /\ answer = 2

----------------------------------------------------------------------------
(***************************************************************************)
(* Properties of the session drivers.                                      *)
(***************************************************************************)
\* The work for position i has made its output directory.
HasStarted(i) == worker[i] \notin {"idle", "create"} \/ DirOf(i) \in dirs

\* C18: when a device cannot be connected at setup, only that device's run is
\* aborted: in both session drivers main does not crash on it, the failure is
\* recorded as an error entry for that device, and when main has finished
\* every device of the list has been processed.
C18_SetupFailureIsolated ==
    /\ ~(sessionPc = "crashed" /\ worker[next_device] = "idle")
    /\ \A i \in Positions :
          (worker[i] \in {"returned", "appended"} /\ returned[i].kind = "error") =>
              returned[i].device_id = devices[i]
    /\ sessionPc = "done" =>
          /\ \A i \in Positions : worker[i] = "appended"
          /\ driver = "collect_data" => Len(all_summaries) = Len(devices)

\* C19: in collect_data.main, sequential or parallel and under every
\* interleaving of the workers, the total summary is built only after the work
\* for every device has returned, and it holds exactly one device summary for
\* each device of the input list.
C19_SummaryAfterAllDevices ==
    (driver = "collect_data" /\ total_summary.written) =>
        /\ \A i \in Positions : worker[i] = "appended"
        /\ Len(total_summary.device_summaries) = Len(devices)
        /\ \A i \in Positions :
              Cardinality({k \in 1..Len(total_summary.device_summaries) :
                  total_summary.device_summaries[k].device_id = devices[i]}) =
              Cardinality({j \in Positions : devices[j] = devices[i]})

\* C20: the work for two distinct device identifiers is always done under
\* distinct output sub-paths, and no file is written for more than one device;
\* for every pair of distinct identifiers, those that differ only in ':', '.'
\* and '_' included.
C20_DistinctDevicesDistinctPaths ==
    /\ \A i, j \in Positions :
          (devices[i] # devices[j] /\ HasStarted(i) /\ HasStarted(j)) =>
              DirOf(i) # DirOf(j)
    /\ \A w1, w2 \in writes :
          (w1[1] = w2[1] /\ w1[2] = w2[2]) => w1[3] = w2[3]

\* C21: under every interleaving of the workers and for every device list,
\* one that names a device more than once included, at most one episode (and
\* so at most one round) is being played on a device at any time, and the
\* episodes of a device are begun in increasing episode index.
C21_OneRoundPerDeviceInOrder ==
    driver = "collect_data" =>
        /\ \A i, j \in Positions :
              (i # j /\ devices[i] = devices[j]) =>
                  ~(worker[i] = "episode" /\ worker[j] = "episode")
        /\ in_order

\* The episode loop of position i has ended.
LoopEnded(i) == worker[i] \in {"read", "returned", "appended"} \/ sessionPc = "done"

\* C22: in both session drivers, when an episode after the first is being
\* played on a device, refresh_browser has been issued exactly once since the
\* record of the episode before it was persisted, and after the record of the
\* last episode no refresh is issued.
C22_OneResetBetweenEpisodes ==
    \A i \in Positions :
        /\ (worker[i] = "episode" /\ episode_index[i] >= 1) => resets[i] = 1
        /\ worker[i] = "refresh" => (resets[i] = 0 /\ episode_index[i] < episodes - 1)
        /\ LoopEnded(i) => resets[i] = 0

\* The episode ids among a set of file names.
EpisodeIdsOf(fs) == {f.id : f \in {g \in fs : g.kind = "episode_metadata"}}

\* C28: a DataCollector collects under the episode ids start, start + 1, ...,
\* start + n - 1, where start is 1 plus the largest episode id its directory
\* held when it was constructed (1 when it held none): the ids are pairwise
\* distinct, larger than every id found, and no record found is written again.
C28_EpisodeIdsContinueAfterExisting ==
    \A i \in Positions :
        (driver = "collect_data" /\ worker[i] \notin {"idle", "create"}) =>
            LET found == EpisodeIdsOf(found_files[i])
                start == IF found = {} THEN 1 ELSE SetMax(found) + 1
            IN /\ start_episode_id[i] = start
               /\ \A k \in 1..Len(used_ids[i]) :
                     /\ used_ids[i][k] = start + k - 1
                     /\ used_ids[i][k] \notin found
                     /\ \A e \in found : used_ids[i][k] > e
               /\ \A k, l \in 1..Len(used_ids[i]) : k # l => used_ids[i][k] # used_ids[i][l]
               /\ \A k \in 1..Len(collected[i]) : collected[i][k].episode_id = used_ids[i][k]
               /\ worker[i] = "read" => Len(used_ids[i]) = (IF episodes > 0 THEN episodes ELSE 0)

\* C28 witness: a collector whose directory held the episodes 1 and 3 has
\* collected two episodes, under the ids 4 and 5.
C28_Witness ==
    \E i \in Positions :
        /\ driver = "collect_data"
        /\ EpisodeIdsOf(found_files[i]) = {1, 3}
        /\ used_ids[i] = <<4, 5>>
        /\ worker[i] = "read"
        /\ <<DirOf(i), EpisodeFile(5)>> \in files

\* A device summary agrees with the episodes it lists.
SummaryConsistent(s) ==
    /\ s.successful_episodes =
          Cardinality({k \in 1..Len(s.episodes) : s.episodes[k].success})
    /\ s.total_rounds_collected =
          SumSeq([k \in 1..Len(s.episodes) |-> s.episodes[k].completed_rounds])
    /\ 10 * s.successful_episodes <= s.total_rounds_collected
    /\ s.total_rounds_collected <= 10 * s.total_episodes

\* The sum of a field over the device summaries, an error entry counting 0.
TotalOf(summaries, field) ==
    SumSeq([k \in 1..Len(summaries) |->
               IF summaries[k].kind = "summary" THEN summaries[k][field] ELSE 0])

\* C30: every device summary written by collect_data agrees with its episode
\* records (successes counted, completed rounds summed, and
\* 10 * successful <= rounds <= 10 * total), and every total of the run
\* summary is the sum of the field over the device summaries, an error entry
\* contributing 0.
C30_SummariesAgreeWithRecords ==
    /\ \A d \in DOMAIN summary_files :
          summary_files[d].kind = "summary" => SummaryConsistent(summary_files[d])
    /\ (driver = "collect_data" /\ total_summary.written) =>
          /\ total_summary.total_episodes_collected =
                TotalOf(total_summary.device_summaries, "total_episodes")
          /\ total_summary.successful_episodes =
                TotalOf(total_summary.device_summaries, "successful_episodes")
          /\ total_summary.total_rounds_collected =
                TotalOf(total_summary.device_summaries, "total_rounds_collected")

=============================================================================
